---- MODULE Spec2Model ----
(***************************************************************************)
(* The room lifecycle of StudyBot (src/study_room_bot.py): the registries  *)
(* active_rooms and owner_to_channel, the bookroom command handler, the    *)
(* per-room expiry timer task (cleanup_room_timer), the voice-state        *)
(* listener (on_voice_state_update), the shared release routine            *)
(* (_perform_cleanup), the sessions table written by _log_session, and the *)
(* two commands that read it (studystats, weeklyreport).                   *)
(*                                                                         *)
(* Spec is the lifecycle with a bounded clock; SpecLive is the lifecycle   *)
(* with a clock that follows the sleeping timers and a fair event loop;    *)
(* SpecRange is the bookroom handlers alone with any typed duration;       *)
(* SpecStats is the two reading commands over any small sessions table.    *)
(*                                                                         *)
(* Scheduling is that of one asyncio event loop: a handler runs without    *)
(* interruption from one suspension point (an await that really waits: a   *)
(* Discord HTTP call or asyncio.sleep) to the next, so every action below  *)
(* is the code between two such points.  `await self._log_session(...)`    *)
(* never suspends (the coroutine holds no await), so it is part of the     *)
(* step that calls it.                                                     *)
(*                                                                         *)
(* Discord assigns every created role and channel a fresh id; the role and *)
(* channel created by the r-th bookroom invocation are both named r here   *)
(* (role ids and channel ids are separate namespaces).                     *)
(***************************************************************************)
EXTENDS Integers, Sequences, FiniteSets, TLC

\* ---------------------------------------------------------------- bounds

\* Number of bookroom invocations in a run.
MaxReq == 2
\* Largest duration_minutes a request carries.
MaxDur == 1
\* The clock stops after MaxClockMinutes whole minutes (plus one latency).
MaxClockMinutes == 1
\* The clock first advances by a latency of LatencyTicks ticks (the time a
\* Discord call takes), then by whole minutes.
LatencyTicks == 3
\* Resolution of datetime.now() below one second, as ticks per second; the
\* int(...total_seconds()) of _perform_cleanup truncates to whole seconds.
TicksPerSecond == 2

\* Rows of the sessions table a studystats or weeklyreport starts from.
MaxRows == 2

\* ------------------------------------------------------- program constants

\* duration_minutes * 60 (cleanup_room_timer).
SecondsPerMinute == 60
MinuteTicks == SecondsPerMinute * TicksPerSecond
\* timedelta(days=7) of weeklyreport, in ticks.
ReportDays == 7
SecondsPerDay == 86400
WeekTicks == ReportDays * SecondsPerDay * TicksPerSecond

\* app_commands.Range[int, 1, 360] of bookroom's duration_minutes.
DurationMin == 1
DurationMax == 360

Reqs == 1..MaxReq
Users == {"A", "B"}
Topics == {"Calc"}
Durations == 1..MaxDur
NoChannel == 0
\* before.channel of a voice-state update: a channel id, or None.
VoiceChannels == Reqs \cup {NoChannel}
\* Who may still be connected to before.channel: a human and a bot.
Members == {"human", "bot"}
Bots == {"bot"}

VARIABLES
    active_rooms,      \* self.active_rooms: channel id -> room_data
    owner_to_channel,  \* self.owner_to_channel: owner id -> channel id
    ledger,            \* rows of the sessions table, in insertion order
    req,               \* the bookroom invocations: position and locals
    timer,             \* the cleanup_room_timer task of each room
    cl,                \* the _perform_cleanup call that won the gate, per room
    roles,             \* role ids that exist in the guild
    channels,          \* channel ids that exist in the guild
    now,               \* datetime.now(), in ticks
    stats              \* what the last studystats or weeklyreport computed

vars == <<active_rooms, owner_to_channel, ledger, req, timer, cl, roles,
          channels, now, stats>>

\* ---------------------------------------------------------------- helpers

\* dict[k] = v
Put(f, k, v) == [x \in DOMAIN f \cup {k} |-> IF x = k THEN v ELSE f[x]]

\* Mutant of Pop: dict.get(k) in place of dict.pop(k, None).
PopKeeps(f, k) == f

\* dict.pop(k, None): the dict without k (unchanged when k is absent)
Pop(f, k) == [x \in DOMAIN f \ {k} |-> f[x]]

PartnerOf(u) == CHOOSE p \in Users : p # u

\* Users are interchangeable: the first invocation is A's.
UsersOf(r) == IF r = 1 THEN {"A"} ELSE Users

\* A bookroom invocation that has not arrived yet.  Locals the handler no
\* longer reads are dropped: after the room is stored or the except branch
\* is entered only new_role and new_voice_channel are read (Ended keeps
\* them, with what the rollback did).
IdleReq == [pc |-> "idle", user |-> "A", dur |-> 1, topic |-> "Calc",
            start_time |-> 0, new_role |-> FALSE,
            new_voice_channel |-> FALSE,
            rb_role |-> "none", rb_channel |-> "none"]

Ended(rq, outcome) ==
    [IdleReq EXCEPT !.pc = outcome, !.new_role = rq.new_role,
                    !.new_voice_channel = rq.new_voice_channel,
                    !.rb_role = rq.rb_role, !.rb_channel = rq.rb_channel]

\* A timer task: its state, the end of its sleep and its arguments (a task
\* that has ended keeps only its state).
NoTimer == [state |-> "none", deadline |-> 0, dur |-> 1, topic |-> "Calc"]

\* No _perform_cleanup call has passed the gate for the room.  Of a call
\* that has: its position, its caller, and which of role.delete and
\* channel.delete it has called.
NoCleanup == [pc |-> "none", via |-> "none",
              role_tried |-> FALSE, channel_tried |-> FALSE]

\* No studystats or weeklyreport has run.  Of one that has: the command,
\* the invoking user, whether the query returned anything (found is FALSE
\* for SQL NULL / no rows), the total of studystats, the per-owner totals of
\* weeklyreport and the message sent.
NoStats == [cmd |-> "none", user |-> "A", found |-> FALSE, total |-> 0,
            by_user |-> [u \in Users |-> 0], reply |-> "none"]

Init ==
    /\ active_rooms = [c \in {} |-> NoCleanup]
    /\ owner_to_channel = [u \in {} |-> 0]
    /\ ledger = <<>>
    /\ req = [r \in Reqs |-> IdleReq]
    /\ timer = [r \in Reqs |-> NoTimer]
    /\ cl = [r \in Reqs |-> NoCleanup]
    /\ roles = {}
    /\ channels = {}
    /\ now = 0
    /\ stats = NoStats

\* ------------------------------------------------------------------ clock

\* Time passes: by a latency first, then by whole minutes.
Tick ==
    /\ now' = IF now = 0 THEN LatencyTicks ELSE now + MinuteTicks
    /\ now' <= MaxClockMinutes * MinuteTicks + LatencyTicks
    /\ UNCHANGED <<active_rooms, owner_to_channel, ledger, req, timer, cl,
                   roles, channels, stats>>

\* The timer tasks whose asyncio.sleep is not over yet.
Pending == {c \in Reqs : timer[c].state = "sleeping" /\ timer[c].deadline > now}

\* Time passes while a timer sleeps, however far its end is: the clock moves
\* to the instant at which the earliest pending sleep ends.
TickOn ==
    /\ Pending # {}
    /\ now' = CHOOSE t \in {timer[c].deadline : c \in Pending} :
                 \A c \in Pending : t <= timer[c].deadline
    /\ UNCHANGED <<active_rooms, owner_to_channel, ledger, req, timer, cl,
                   roles, channels, stats>>

\* --------------------------------------------------------------- bookroom

\* Mutant of ExceptBranch: the except branch reports without rolling back.
ExceptBranchNoRollback(rq) == "failed"

\* The except branch of bookroom: where the handler suspends next, given
\* its locals new_role and new_voice_channel at the time of the raise.  With
\* nothing left to roll back the error message is sent and the handler ends
\* ("failed"; the send is the handler's last statement and touches nothing).
ExceptBranch(rq) ==
    IF rq.new_role THEN "rb_role"
    ELSE IF rq.new_voice_channel THEN "rb_channel"
    ELSE "failed"

\* The handler of request r raises inside the try block and enters the
\* except branch: it suspends in the first rollback call its locals ask for.
Raise(r) ==
    req' = [req EXCEPT ![r] = Ended(req[r], ExceptBranch(req[r]))]

\* The owner check of bookroom: the invoking user already has a room.
AlreadyLeased(u) == u \in DOMAIN owner_to_channel

\* Mutant of Reject: the owner check placed after the role was created.
RejectAfterCreateRole(r) ==
    /\ req' = [req EXCEPT ![r] = Ended(req[r], "rejected")]
    /\ roles' = roles \cup {r}

\* The handler tells the user about the room it already has and returns.
Reject(r) ==
    /\ req' = [req EXCEPT ![r] = Ended(req[r], "rejected")]
    /\ UNCHANGED roles

\* Mutant of InRange: the annotation without its upper limit.
InRangeNoUpper(d) == d >= DurationMin

\* duration_minutes: app_commands.Range[int, 1, 360]
InRange(d) == d >= DurationMin /\ d <= DurationMax

\* The value fails the Range annotation: the command is refused when its
\* arguments are converted, and the body of bookroom never runs.  (The
\* refused value is kept with the outcome.)
Invalid(r, d) ==
    /\ req' = [req EXCEPT ![r] = [IdleReq EXCEPT !.pc = "invalid", !.dur = d]]
    /\ UNCHANGED roles

\* /bookroom arrives and runs from the deferred response to its first
\* Discord call: refused when duration_minutes is out of range, rejected
\* when the user is in owner_to_channel, otherwise start_time is taken and
\* create_role is awaited.  (The await of interaction.response.defer
\* precedes every read of the bot's state, so the step stands for the
\* handler resuming from it.)
Bookroom(r, u, t, d) ==
    /\ req[r].pc = "idle"
    /\ \A q \in Reqs : q < r => req[q].pc # "idle"
    /\ IF ~InRange(d)
       THEN Invalid(r, d)
       ELSE IF AlreadyLeased(u)
       THEN Reject(r)
       ELSE /\ req' = [req EXCEPT ![r].pc = "create_role", ![r].user = u,
                                  ![r].topic = t, ![r].dur = d,
                                  ![r].start_time = now]
            /\ UNCHANGED roles
    /\ UNCHANGED <<active_rooms, owner_to_channel, ledger, timer, cl,
                   channels, now, stats>>

\* guild.create_role returns (the role now exists) or raises.
CreateRoleReturn(r, ok) ==
    /\ req[r].pc = "create_role"
    /\ IF ok
       THEN /\ roles' = roles \cup {r}
            /\ req' = [req EXCEPT ![r].new_role = TRUE,
                                  ![r].pc = "add_roles"]
       ELSE /\ Raise(r)
            /\ UNCHANGED roles
    /\ UNCHANGED <<active_rooms, owner_to_channel, ledger, timer, cl,
                   channels, now, stats>>

\* interaction.user.add_roles and partner.add_roles have both returned, or
\* one of them raised.  (Two awaits in a row with nothing of the bot's
\* state read or written between them: one step.)
AddRolesReturn(r, ok) ==
    /\ req[r].pc = "add_roles"
    /\ IF ok
       THEN req' = [req EXCEPT ![r].pc = "create_voice_channel"]
       ELSE Raise(r)
    /\ UNCHANGED <<active_rooms, owner_to_channel, ledger, timer, cl, roles,
                   channels, now, stats>>

\* The room_data bookroom stores for request r (timer_task is timer[r]).
RoomData(r) ==
    [owner_id |-> req[r].user, partner_id |-> PartnerOf(req[r].user),
     role_id |-> r, start_time |-> req[r].start_time, topic |-> req[r].topic]

\* guild.create_voice_channel returns or raises.  On return the handler
\* creates the timer task, stores the room in both registries and suspends
\* in the confirmation message.
CreateVoiceChannelReturn(r, ok) ==
    /\ req[r].pc = "create_voice_channel"
    /\ IF ok
       THEN /\ channels' = channels \cup {r}
            /\ timer' = [timer EXCEPT ![r] =
                  [state |-> "sleeping",
                   deadline |-> now + req[r].dur * MinuteTicks,
                   dur |-> req[r].dur, topic |-> req[r].topic]]
            /\ active_rooms' = Put(active_rooms, r, RoomData(r))
            /\ owner_to_channel' = Put(owner_to_channel, req[r].user, r)
            /\ req' = [req EXCEPT ![r] =
                  [Ended(req[r], "confirm") EXCEPT !.new_voice_channel = TRUE]]
       ELSE /\ Raise(r)
            /\ UNCHANGED <<channels, timer, active_rooms, owner_to_channel>>
    /\ UNCHANGED <<ledger, cl, roles, now, stats>>

\* interaction.followup.send (the confirmation) returns or raises.
ConfirmReturn(r, ok) ==
    /\ req[r].pc = "confirm"
    /\ IF ok
       THEN req' = [req EXCEPT ![r] = Ended(req[r], "done")]
       ELSE Raise(r)
    /\ UNCHANGED <<active_rooms, owner_to_channel, ledger, timer, cl, roles,
                   channels, now, stats>>

\* A Discord delete call on `id` ends: with success the object is gone;
\* a call on an object that no longer exists cannot succeed.
Deleted(existing, id, ok) == IF ok THEN existing \ {id} ELSE existing

\* Rollback: new_role.delete returns or raises (the raise is swallowed).
RollbackRoleReturn(r, ok) ==
    /\ req[r].pc = "rb_role"
    /\ ok => r \in roles
    /\ roles' = Deleted(roles, r, ok)
    /\ req' = [req EXCEPT
                 ![r].rb_role = IF ok THEN "deleted" ELSE "failed",
                 ![r].pc = IF req[r].new_voice_channel
                           THEN "rb_channel" ELSE "failed"]
    /\ UNCHANGED <<active_rooms, owner_to_channel, ledger, timer, cl,
                   channels, now, stats>>

\* Rollback: new_voice_channel.delete returns or raises (swallowed).
RollbackChannelReturn(r, ok) ==
    /\ req[r].pc = "rb_channel"
    /\ ok => r \in channels
    /\ channels' = Deleted(channels, r, ok)
    /\ req' = [req EXCEPT
                 ![r].rb_channel = IF ok THEN "deleted" ELSE "failed",
                 ![r].pc = "failed"]
    /\ UNCHANGED <<active_rooms, owner_to_channel, ledger, timer, cl, roles,
                   now, stats>>

\* ------------------------------------------------------------ _log_session

\* The row _log_session inserts: end_time is start_time plus the duration.
SessionRecord(owner_id, partner_id, start_time, duration_seconds, topic) ==
    [user_id |-> owner_id, partner_id |-> partner_id,
     start_time |-> start_time,
     end_time |-> start_time + duration_seconds * TicksPerSecond,
     duration_seconds |-> duration_seconds, topic |-> topic]

\* Mutant of LogSession: the row replaces the last row of the table (an
\* UPDATE, or INSERT OR REPLACE on a reused key) instead of being added.
LogSessionReplaces(owner_id, partner_id, start_time, duration_seconds, topic, db_ok) ==
    LET row == SessionRecord(owner_id, partner_id, start_time,
                             duration_seconds, topic)
    IN  ledger' = IF ~db_ok THEN ledger
                  ELSE IF ledger = <<>> THEN <<row>>
                  ELSE [ledger EXCEPT ![Len(ledger)] = row]

\* _log_session: the row is inserted and committed, or the database raises
\* and the exception is printed and swallowed (db_ok = FALSE).
LogSession(owner_id, partner_id, start_time, duration_seconds, topic, db_ok) ==
    ledger' = IF db_ok
              THEN Append(ledger, SessionRecord(owner_id, partner_id,
                                    start_time, duration_seconds, topic))
              ELSE ledger

\* --------------------------------------------------------- _perform_cleanup

\* int((datetime.now() - start_time).total_seconds())
Elapsed(start_time) == (now - start_time) \div TicksPerSecond

\* Mutant of FinalDuration: the elapsed time whatever the caller passed.
FinalDurationAlwaysElapsed(duration_seconds, start_time) ==
    Elapsed(start_time)

\* The duration logged: the caller's, or the elapsed time when it passed 0.
FinalDuration(duration_seconds, start_time) ==
    IF duration_seconds = 0 THEN Elapsed(start_time) ELSE duration_seconds

\* Mutant of NoRoom: the session is logged before the result of the pop is
\* looked at.
NoRoomLogsFirst(c) ==
    /\ ledger' = Append(ledger, SessionRecord("A", "B", 0, 0, "N/A"))
    /\ UNCHANGED <<active_rooms, owner_to_channel, cl, roles, channels>>

\* `if not room_data: return`: the pop found nothing, nothing is touched.
NoRoom(c) ==
    UNCHANGED <<active_rooms, owner_to_channel, ledger, cl, roles, channels>>

\* timer_task.cancel() on a task that is waiting in asyncio.sleep.
Cancel(t) == IF t.state = "sleeping" THEN [NoTimer EXCEPT !.state = "cancelled"]
             ELSE t

\* The timer task has run to its end.
Finished == [NoTimer EXCEPT !.state = "finished"]

\* _perform_cleanup once the pop returned room_data, up to its first
\* suspension.  get_channel(channel_id) is None for a channel that no
\* longer exists, and reading .guild of it raises AttributeError (pc
\* "error"), which leaves the routine before the timer is cancelled.
\* Called by the voice listener (via = "vacant") the routine cancels the
\* sleeping timer task and suspends in role.delete, or in channel.delete
\* when the role is gone.  Called by the timer task itself (via =
\* "expired") the cancel() marks the running task: CancelledError is raised
\* in it at the first awaited delete, whose request may or may not have
\* reached Discord (gone); `except Exception` does not catch it, and
\* cleanup_room_timer swallows it (pc "cancelled").
Release(c, via, duration_seconds, topic, db_ok) ==
    LET room_data == active_rooms[c]
        role_found == room_data.role_id \in roles
        frame == [NoCleanup EXCEPT !.via = via]
    IN  /\ active_rooms' = Pop(active_rooms, c)
        /\ LogSession(room_data.owner_id, room_data.partner_id,
                      room_data.start_time,
                      FinalDuration(duration_seconds, room_data.start_time),
                      topic, db_ok)
        /\ owner_to_channel' = Pop(owner_to_channel, room_data.owner_id)
        /\ IF c \notin channels
           THEN /\ cl' = [cl EXCEPT ![c] = [frame EXCEPT !.pc = "error"]]
                /\ timer' = IF via = "expired"
                            THEN [timer EXCEPT ![c] = Finished]
                            ELSE timer
                /\ UNCHANGED <<roles, channels>>
           ELSE IF via = "expired"
           THEN /\ timer' = [timer EXCEPT ![c] = Finished]
                /\ \E gone \in BOOLEAN :
                     IF role_found
                     THEN /\ roles' = Deleted(roles, room_data.role_id, gone)
                          /\ UNCHANGED channels
                     ELSE /\ channels' = Deleted(channels, c, gone)
                          /\ UNCHANGED roles
                /\ cl' = [cl EXCEPT ![c] =
                            [frame EXCEPT !.pc = "cancelled",
                                          !.role_tried = role_found,
                                          !.channel_tried = ~role_found]]
           ELSE /\ timer' = [timer EXCEPT ![c] = Cancel(timer[c])]
                /\ cl' = [cl EXCEPT ![c] =
                            [frame EXCEPT
                               !.pc = IF role_found THEN "role_delete"
                                      ELSE "channel_delete",
                               !.role_tried = role_found,
                               !.channel_tried = ~role_found]]
                /\ UNCHANGED <<roles, channels>>

\* _perform_cleanup from its entry to its first suspension or return.
PerformCleanup(c, via, duration_seconds, topic) ==
    IF c \in DOMAIN active_rooms
    THEN \E db_ok \in BOOLEAN : Release(c, via, duration_seconds, topic, db_ok)
    ELSE /\ NoRoom(c)
         /\ timer' = IF via = "expired"
                     THEN [timer EXCEPT ![c] = Finished]
                     ELSE timer

\* role.delete of a voice-triggered cleanup returns or raises (printed);
\* channel.delete is awaited next (the channel object was found).
RoleDeleteReturn(c, ok) ==
    /\ cl[c].pc = "role_delete"
    /\ ok => c \in roles
    /\ roles' = Deleted(roles, c, ok)
    /\ cl' = [cl EXCEPT ![c].pc = "channel_delete", ![c].channel_tried = TRUE]
    /\ UNCHANGED <<active_rooms, owner_to_channel, ledger, req, timer,
                   channels, now, stats>>

\* channel.delete of a voice-triggered cleanup returns or raises (printed).
ChannelDeleteReturn(c, ok) ==
    /\ cl[c].pc = "channel_delete"
    /\ ok => c \in channels
    /\ channels' = Deleted(channels, c, ok)
    /\ cl' = [cl EXCEPT ![c].pc = "done"]
    /\ UNCHANGED <<active_rooms, owner_to_channel, ledger, req, timer, roles,
                   now, stats>>

\* ------------------------------------------------------- cleanup_room_timer

\* Mutant of TimerFire: the timer task ends after its sleep without calling
\* _perform_cleanup.
TimerFireWithoutCleanup(c) ==
    /\ timer[c].state = "sleeping"
    /\ now >= timer[c].deadline
    /\ timer' = [timer EXCEPT ![c] = Finished]
    /\ UNCHANGED <<active_rooms, owner_to_channel, ledger, req, cl, roles,
                   channels, now, stats>>

\* asyncio.sleep(duration_minutes * 60) is over: the timer task calls
\* _perform_cleanup with the planned duration and ends (every exception of
\* the call is caught in cleanup_room_timer).
TimerFire(c) ==
    /\ timer[c].state = "sleeping"
    /\ now >= timer[c].deadline
    /\ PerformCleanup(c, "expired", timer[c].dur * SecondsPerMinute,
                      timer[c].topic)
    /\ UNCHANGED <<req, now, stats>>

\* ---------------------------------------------------- on_voice_state_update

\* Mutant of Vacated: the channel must be empty, bots included.
VacatedOfEveryone(c, moved, members) ==
    /\ c # NoChannel
    /\ c \in DOMAIN active_rooms
    /\ moved
    /\ members = {}

\* The listener's condition for releasing: before.channel is c (NoChannel
\* for None) and tracked, moved says after.channel differs from it, and of
\* the members still connected to it none is a non-bot.
Vacated(c, moved, members) ==
    /\ c # NoChannel
    /\ c \in DOMAIN active_rooms
    /\ moved
    /\ members \ Bots = {}

\* A member's voice state changed and the listener releases the room.  An
\* update that fails the condition changes nothing: it is a stuttering
\* step.
VoiceStateUpdate(c, moved, members) ==
    /\ Vacated(c, moved, members)
    /\ PerformCleanup(c, "vacant", 0, active_rooms[c].topic)
    /\ UNCHANGED <<req, now, stats>>

\* ---------------------------------------------------- studystats, reports

\* SUM(duration_seconds) over a sequence of rows.
RECURSIVE SumDurations(_)
SumDurations(rows) ==
    IF rows = <<>> THEN 0
    ELSE Head(rows).duration_seconds + SumDurations(Tail(rows))

\* Mutant of StatsRows: only the sessions the user owns are selected.
StatsRowsOwnerOnly(user_id) ==
    SelectSeq(ledger, LAMBDA row : row.user_id = user_id)

\* WHERE user_id = ? OR partner_id = ?
StatsRows(user_id) ==
    SelectSeq(ledger, LAMBDA row : row.user_id = user_id
                                      \/ row.partner_id = user_id)

\* /studystats: the handler after its deferred response, up to the message
\* it sends.  SUM over no rows is NULL (None); None and 0 get the same
\* message.
Studystats(user_id) ==
    LET rows == StatsRows(user_id)
        total_seconds == SumDurations(rows)
    IN  /\ stats' = [NoStats EXCEPT
                       !.cmd = "studystats", !.user = user_id,
                       !.found = (rows # <<>>), !.total = total_seconds,
                       !.reply = IF rows = <<>> \/ total_seconds = 0
                                 THEN "nothing_logged" ELSE "total"]
        /\ UNCHANGED <<active_rooms, owner_to_channel, ledger, req, timer,
                       cl, roles, channels, now>>

\* WHERE start_time >= one_week_ago
ReportRows ==
    SelectSeq(ledger, LAMBDA row : row.start_time >= now - WeekTicks)

\* /weeklyreport: the rows of the last seven days, summed per user_id (the
\* grouping by day of the week is left out: every instant of the model is
\* on one day).
Weeklyreport ==
    LET rows == ReportRows
    IN  /\ stats' = [NoStats EXCEPT
                       !.cmd = "weeklyreport", !.found = (rows # <<>>),
                       !.by_user = [u \in Users |->
                          SumDurations(SelectSeq(rows,
                              LAMBDA row : row.user_id = u))],
                       !.reply = IF rows = <<>>
                                 THEN "nothing_logged" ELSE "report"]
        /\ UNCHANGED <<active_rooms, owner_to_channel, ledger, req, timer,
                       cl, roles, channels, now>>

\* The durations of the rows a query starts from.
StatDurations == {0, 300, 600}

\* The rows _log_session can have written: any owner, any partner (the
\* owner included), any duration.
StatRows ==
    {SessionRecord(o, p, 0, d, "Calc") :
        o \in Users, p \in Users, d \in StatDurations}

\* The sessions tables of at most n rows.
RECURSIVE Tables(_)
Tables(n) ==
    IF n = 0 THEN {<<>>}
    ELSE LET shorter == Tables(n - 1)
         IN  shorter \cup {Append(t, row) : t \in shorter, row \in StatRows}

\* The bot with a sessions table of earlier runs (the table outlives the
\* process: setup_db creates it only IF NOT EXISTS), now or more than a
\* week after the rows were written.
InitStats ==
    /\ active_rooms = [c \in {} |-> NoCleanup]
    /\ owner_to_channel = [u \in {} |-> 0]
    /\ ledger \in Tables(MaxRows)
    /\ req = [r \in Reqs |-> IdleReq]
    /\ timer = [r \in Reqs |-> NoTimer]
    /\ cl = [r \in Reqs |-> NoCleanup]
    /\ roles = {}
    /\ channels = {}
    /\ now \in {0, WeekTicks + 1}
    /\ stats = NoStats

NextStats ==
    \/ \E user_id \in Users : Studystats(user_id)
    \/ Weeklyreport

SpecStats == InitStats /\ [][NextStats]_vars

\* The values of duration_minutes a user may type: the limits of the range
\* and their neighbours outside it.
RangeInputs == {DurationMin - 1, DurationMin, DurationMax, DurationMax + 1}

\* The bookroom handlers alone, invoked with any typed duration.
NextRange ==
    \/ \E r \in Reqs : \E u \in UsersOf(r), t \in Topics, d \in RangeInputs :
          Bookroom(r, u, t, d)
    \/ \E r \in Reqs, ok \in BOOLEAN : CreateRoleReturn(r, ok)
    \/ \E r \in Reqs, ok \in BOOLEAN : AddRolesReturn(r, ok)
    \/ \E r \in Reqs, ok \in BOOLEAN : CreateVoiceChannelReturn(r, ok)
    \/ \E r \in Reqs, ok \in BOOLEAN : ConfirmReturn(r, ok)
    \/ \E r \in Reqs, ok \in BOOLEAN : RollbackRoleReturn(r, ok)
    \/ \E r \in Reqs, ok \in BOOLEAN : RollbackChannelReturn(r, ok)

SpecRange == Init /\ [][NextRange]_vars

Next ==
    \/ Tick
    \/ \E r \in Reqs : \E u \in UsersOf(r), t \in Topics, d \in Durations :
          Bookroom(r, u, t, d)
    \/ \E r \in Reqs, ok \in BOOLEAN : CreateRoleReturn(r, ok)
    \/ \E r \in Reqs, ok \in BOOLEAN : AddRolesReturn(r, ok)
    \/ \E r \in Reqs, ok \in BOOLEAN : CreateVoiceChannelReturn(r, ok)
    \/ \E r \in Reqs, ok \in BOOLEAN : ConfirmReturn(r, ok)
    \/ \E r \in Reqs, ok \in BOOLEAN : RollbackRoleReturn(r, ok)
    \/ \E r \in Reqs, ok \in BOOLEAN : RollbackChannelReturn(r, ok)
    \/ \E c \in Reqs : TimerFire(c)
    \/ \E c \in VoiceChannels, moved \in BOOLEAN, members \in SUBSET Members :
          VoiceStateUpdate(c, moved, members)
    \/ \E c \in Reqs, ok \in BOOLEAN : RoleDeleteReturn(c, ok)
    \/ \E c \in Reqs, ok \in BOOLEAN : ChannelDeleteReturn(c, ok)

Spec == Init /\ [][Next]_vars

\* The lifecycle with a clock that follows the sleeping timers.
NextLive ==
    \/ TickOn
    \/ \E r \in Reqs : \E u \in UsersOf(r), t \in Topics, d \in Durations :
          Bookroom(r, u, t, d)
    \/ \E r \in Reqs, ok \in BOOLEAN : CreateRoleReturn(r, ok)
    \/ \E r \in Reqs, ok \in BOOLEAN : AddRolesReturn(r, ok)
    \/ \E r \in Reqs, ok \in BOOLEAN : CreateVoiceChannelReturn(r, ok)
    \/ \E r \in Reqs, ok \in BOOLEAN : ConfirmReturn(r, ok)
    \/ \E r \in Reqs, ok \in BOOLEAN : RollbackRoleReturn(r, ok)
    \/ \E r \in Reqs, ok \in BOOLEAN : RollbackChannelReturn(r, ok)
    \/ \E c \in Reqs : TimerFire(c)
    \/ \E c \in VoiceChannels, moved \in BOOLEAN, members \in SUBSET Members :
          VoiceStateUpdate(c, moved, members)
    \/ \E c \in Reqs, ok \in BOOLEAN : RoleDeleteReturn(c, ok)
    \/ \E c \in Reqs, ok \in BOOLEAN : ChannelDeleteReturn(c, ok)

\* Fairness of the event loop: time passes, and a timer task whose sleep is
\* over is resumed.  Nothing is assumed of Discord's answers, of the users
\* or of the voice-state updates.
SpecLive ==
    /\ Init /\ [][NextLive]_vars
    /\ WF_vars(TickOn)
    /\ \A c \in Reqs : WF_vars(TimerFire(c))

\* ----------------------------------------------------------------- claims

\* The rooms of active_rooms owned by u.
RoomsOf(u) == {c \in DOMAIN active_rooms : active_rooms[c].owner_id = u}

\* A _perform_cleanup call that passed the gate for c has ended: it ran to
\* its last line, was cancelled, or raised.
Ended_Cleanup(c) == cl[c].pc \in {"done", "cancelled", "error"}

\* The rooms some _perform_cleanup call has taken out of active_rooms.
Released == {c \in Reqs : cl[c].via # "none"}

\* C1: at every instant at most one room of active_rooms is owned by a
\* given user, whatever the interleaving of bookroom handlers.
C1_OneLeasePerOwner ==
    \A u \in Users : Cardinality(RoomsOf(u)) <= 1

\* C2: every released room got one sessions row at most (one row per
\* release, none twice) and, once its cleanup has ended after a clean
\* admission, one teardown attempt made of both role.delete and
\* channel.delete.
C2_OneRecordOneTeardown ==
    /\ Len(ledger) <= Cardinality(Released)
    /\ \A c \in Reqs :
          (req[c].pc = "done" /\ Ended_Cleanup(c))
             => (cl[c].role_tried /\ cl[c].channel_tried)

\* C3: a release trigger for a channel id that is not in active_rooms is
\* ignored.  A timer that fires for such an id leaves both registries, the
\* ledger, every cleanup, every other timer and all roles and channels as
\* they are; no step starts a cleanup for such an id; and a step that adds
\* a sessions row or removes a reverse mapping removes a tracked room.
C3_UntrackedTriggerIgnored ==
    [][/\ \A c \in Reqs \ DOMAIN active_rooms :
            /\ (timer[c].state = "sleeping" /\ timer'[c].state = "finished")
                  => (/\ UNCHANGED <<active_rooms, owner_to_channel, ledger,
                                     cl, roles, channels>>
                      /\ \A d \in Reqs \ {c} : timer'[d] = timer[d])
            /\ (cl[c].via = "none") => (cl'[c].via = "none")
        /\ (\/ ledger' # ledger
            \/ ~(DOMAIN owner_to_channel \subseteq DOMAIN owner_to_channel'))
             => (\E k \in DOMAIN active_rooms : k \notin DOMAIN active_rooms')
      ]_vars

\* C3 witness: the timer of a room fired after a voice-state update had
\* already released the room, and was ignored.
C3_Witness ==
    \E c \in Reqs : cl[c].via = "vacant" /\ timer[c].state = "finished"

\* C4: the row written at a release carries, as duration_seconds, the whole
\* seconds elapsed since start_time when a voice-state update released the
\* room, and duration_minutes * 60 when the timer did.
C4_DurationLogged ==
    [][\A c \in DOMAIN active_rooms :
          (c \notin DOMAIN active_rooms' /\ Len(ledger') = Len(ledger) + 1)
             => LET rec == ledger'[Len(ledger')]
                IN  /\ (cl'[c].via = "vacant") =>
                          (/\ rec.duration_seconds * TicksPerSecond
                                 <= now - active_rooms[c].start_time
                           /\ now - active_rooms[c].start_time
                                 < (rec.duration_seconds + 1) * TicksPerSecond)
                    /\ (cl'[c].via = "expired") =>
                          (rec.duration_seconds
                             = timer[c].dur * SecondsPerMinute)
                    /\ rec.start_time = active_rooms[c].start_time
      ]_vars

\* C4 witness: a room released by a voice-state update 1.5 s after its
\* start (row of 1 second) and a room released by its timer (row of 60
\* seconds, written LatencyTicks after the planned end or later).
C4_Witness ==
    /\ \E c \in Reqs : cl[c].via = "vacant"
    /\ \E c \in Reqs : cl[c].via = "expired"
    /\ \E i \in 1..Len(ledger) : ledger[i].duration_seconds = 1
    /\ \E i \in 1..Len(ledger) :
          /\ ledger[i].duration_seconds = SecondsPerMinute
          /\ ledger[i].end_time < now

\* C5: while a user owns a room of active_rooms, the owner check of bookroom
\* rejects that user.
C5_HolderIsRejected ==
    \A c \in DOMAIN active_rooms : AlreadyLeased(active_rooms[c].owner_id)

\* C6: a bookroom that ends rejected has created no role and no channel,
\* armed no timer and left active_rooms, owner_to_channel and the ledger as
\* they were.
C6_RejectionHasNoSideEffects ==
    [][\A r \in Reqs :
          (req[r].pc # "rejected" /\ req'[r].pc = "rejected")
             => (/\ UNCHANGED <<active_rooms, owner_to_channel, ledger,
                                timer, cl, roles, channels>>
                 /\ req[r].pc = "idle"
                 /\ ~req'[r].new_role /\ ~req'[r].new_voice_channel
                 /\ \A q \in Reqs \ {r} : req'[q] = req[q])
      ]_vars

\* C6 witness: a bookroom was rejected while its user's room is active.
C6_Witness ==
    \E r \in Reqs : req[r].pc = "rejected" /\ DOMAIN active_rooms # {}

\* C7: once the cleanup of a cleanly admitted room has ended, whichever
\* trigger started it, it has called both role.delete and channel.delete.
C7_BothDeletesAttempted ==
    \A c \in Reqs :
       \A via \in {"expired", "vacant"} :
          (req[c].pc = "done" /\ cl[c].via = via /\ Ended_Cleanup(c))
             => (cl[c].role_tried /\ cl[c].channel_tried)

\* C8: the cancel() a timer task makes on itself while it runs the cleanup
\* raises nothing: the cleanup the timer runs is never cut short by a
\* cancellation.
C8_SelfCancelIsNoOp ==
    \A c \in Reqs : cl[c].via = "expired" => cl[c].pc # "cancelled"

\* C9: a release whose sessions row could not be written (the ledger is
\* unchanged by the step that removes the room) still removes the owner's
\* reverse mapping, ends or cancels the room's timer and, the role and the
\* channel being there, goes on to delete them: it stands in role.delete
\* with channel.delete still to come.
C9_ReleaseProceedsWithoutLedger ==
    [][\A c \in DOMAIN active_rooms :
          (/\ c \notin DOMAIN active_rooms'
           /\ ledger' = ledger
           /\ c \in channels /\ active_rooms[c].role_id \in roles)
             => (/\ active_rooms[c].owner_id \notin DOMAIN owner_to_channel'
                 /\ timer'[c].state \in {"cancelled", "finished"}
                 /\ cl'[c].pc = "role_delete")
      ]_vars

\* C10 as stated: after a bookroom failed at role creation, role
\* assignment or channel creation, its role no longer exists (its channel
\* never did).
C10_NoDanglingAfterFailedAdmission ==
    \A r \in Reqs :
       (req[r].pc = "failed" /\ ~req[r].new_voice_channel)
          => (r \notin roles /\ r \notin channels)

\* C10 amended: after a bookroom failed at role creation, role assignment or
\* channel creation, the role it had created has been the object of one
\* delete call before the failure was reported; the role still exists only
\* if that call failed, and no channel of the request exists.
C10_RollbackAttempted ==
    \A r \in Reqs :
       (req[r].pc = "failed" /\ ~req[r].new_voice_channel)
          => (/\ req[r].new_role => (req[r].rb_role # "none")
              /\ (~req[r].new_role) =>
                    (req[r].rb_role = "none" /\ r \notin roles)
              /\ (r \in roles) => (req[r].rb_role = "failed")
              /\ req[r].rb_channel = "none"
              /\ r \notin channels)

\* C10 witness: a bookroom failed after its role was created, and the
\* rollback deleted the role.
C10_Witness ==
    \E r \in Reqs :
       /\ req[r].pc = "failed" /\ ~req[r].new_voice_channel
       /\ req[r].new_role /\ req[r].rb_role = "deleted" /\ r \notin roles

\* The sum of duration_seconds over the rows of the table that stand
\* at the given positions, each row once.
RECURSIVE SumOver(_, _)
SumOver(positions, table) ==
    IF positions = {} THEN 0
    ELSE LET i == CHOOSE j \in positions : TRUE
         IN  table[i].duration_seconds + SumOver(positions \ {i}, table)

\* The positions of the rows in which u is owner or partner.
RowsOf(u) ==
    {i \in 1..Len(ledger) : u \in {ledger[i].user_id, ledger[i].partner_id}}

\* C11: the total studystats computes for a user is the sum of
\* duration_seconds over the rows in which the user is owner or partner,
\* each row counted once (a row whose owner is also its partner included);
\* the query finds nothing exactly when there is no such row; and the
\* table is left as it was.
C11_StatsTotalIsSum ==
    [][(stats'.cmd = "studystats" /\ stats' # stats)
          => (/\ stats'.total = SumOver(RowsOf(stats'.user), ledger)
              /\ stats'.found = (RowsOf(stats'.user) # {})
              /\ ledger' = ledger)
      ]_vars

\* C11 witness: A owned a session of 600 s and was the partner in one of
\* 300 s, and studystats computed 900 for A.
C11_Witness ==
    /\ stats.cmd = "studystats" /\ stats.user = "A" /\ stats.total = 900
    /\ \E i, j \in 1..Len(ledger) :
          /\ ledger[i].user_id = "A" /\ ledger[i].partner_id = "B"
          /\ ledger[i].duration_seconds = 600
          /\ ledger[j].user_id = "B" /\ ledger[j].partner_id = "A"
          /\ ledger[j].duration_seconds = 300

\* C12: the sessions table only grows, by one row at a time and at its end:
\* no step changes or removes a row it holds.  A step that adds a row is a
\* _perform_cleanup call that took a room out of active_rooms; the steps of
\* bookroom, of studystats and of weeklyreport, and a timer firing for a
\* room that is no longer tracked, leave the table as it is.
C12_LedgerAppendOnly ==
    [][/\ Len(ledger') >= Len(ledger)
       /\ SubSeq(ledger', 1, Len(ledger)) = ledger
       /\ (ledger' # ledger)
             => (/\ Len(ledger') = Len(ledger) + 1
                 /\ \E c \in DOMAIN active_rooms :
                       /\ c \notin DOMAIN active_rooms'
                       /\ cl[c].via = "none" /\ cl'[c].via # "none")
       /\ (req' # req \/ stats' # stats) => (ledger' = ledger)
       /\ (\E c \in Reqs \ DOMAIN active_rooms :
              timer[c].state = "sleeping" /\ timer'[c].state = "finished")
             => (ledger' = ledger)
      ]_vars

\* C12 witness: two releases have each added a row, the second after the
\* first, and the timer of a room released earlier has fired since without
\* adding one.
C12_Witness ==
    /\ Len(ledger) = 2
    /\ ledger[1] # ledger[2]
    /\ \E c \in Reqs : cl[c].via = "vacant" /\ timer[c].state = "finished"

\* C13: a bookroom whose duration_minutes lies in 1..360 passes the range
\* validation and one whose duration_minutes lies outside is refused: the
\* invocation ends refused exactly when its value is out of range, a
\* refusal leaves roles, channels, both registries, the ledger and every
\* timer and other handler as they were, and every timer armed carries a
\* duration_minutes of 1..360.
C13_RangeValidation ==
    [][\A r \in Reqs :
          (req[r].pc = "idle" /\ req'[r].pc # "idle")
             => (/\ (req'[r].pc = "invalid")
                       <=> (req'[r].dur \notin DurationMin..DurationMax)
                 /\ (req'[r].pc = "invalid")
                       => (/\ UNCHANGED <<active_rooms, owner_to_channel,
                                          ledger, timer, cl, roles, channels>>
                           /\ ~req'[r].new_role
                           /\ ~req'[r].new_voice_channel
                           /\ \A q \in Reqs \ {r} : req'[q] = req[q])
                 /\ \A c \in Reqs :
                       (timer'[c].state = "sleeping")
                          => (timer'[c].dur \in DurationMin..DurationMax))
      ]_vars

\* C13 witness: a room booked for 360 minutes is active (the owner had no
\* room), and a bookroom for 361 minutes has been refused.
C13_Witness ==
    /\ \E c \in DOMAIN active_rooms :
          timer[c].state = "sleeping" /\ timer[c].dur = DurationMax
    /\ \E r \in Reqs : req[r].pc = "invalid" /\ req[r].dur = DurationMax + 1

\* C14: the release runs in the order cancel the timer, compute the
\* duration, append the row, request the teardown, remove the reverse
\* mapping.  So when the step that took the room out of active_rooms leaves
\* the routine waiting in a delete call (the teardown is not over), the
\* owner's reverse mapping is still there; and when a release made by the
\* voice listener has added its row, the room's timer is no longer
\* sleeping.
C14_ReleaseOrder ==
    [][\A c \in DOMAIN active_rooms :
          (c \notin DOMAIN active_rooms')
             => (/\ (cl'[c].pc \in {"role_delete", "channel_delete"})
                       => (active_rooms[c].owner_id
                              \in DOMAIN owner_to_channel')
                 /\ (cl'[c].via = "vacant" /\ Len(ledger') > Len(ledger))
                       => (timer'[c].state # "sleeping"))
      ]_vars

\* C15: duration_minutes bounds the life of a room.  While the room's timer
\* is not late (the clock has not passed the end of its sleep) the room is
\* in active_rooms at most duration_minutes * 60 seconds after its
\* start_time, and the row a release writes then has a duration_seconds of
\* at most duration_minutes * 60.
C15_PlannedDurationBoundsLife ==
    [][\A c \in DOMAIN active_rooms :
          (now <= timer[c].deadline)
             => (/\ now - active_rooms[c].start_time
                       <= timer[c].dur * MinuteTicks
                 /\ (c \notin DOMAIN active_rooms'
                        /\ Len(ledger') = Len(ledger) + 1)
                       => (ledger'[Len(ledger')].duration_seconds
                              <= timer[c].dur * SecondsPerMinute))
      ]_vars

\* C16: every room stored in active_rooms is eventually taken out of it,
\* and at that moment its owner is not in owner_to_channel, under a fair
\* event loop and whether or not a voice-state update ever arrives.
C16_EveryLeaseReleased ==
    \A c \in Reqs : \A u \in Users :
       (c \in DOMAIN active_rooms /\ active_rooms[c].owner_id = u)
          ~> (c \notin DOMAIN active_rooms /\ u \notin DOMAIN owner_to_channel)

\* C16 witness: no voice-state update has released anything, and the timer
\* of a room has fired and released it.
C16_Witness ==
    /\ \A c \in Reqs : cl[c].via # "vacant"
    /\ \E c \in Reqs :
          /\ cl[c].via = "expired" /\ timer[c].state = "finished"
          /\ c \notin DOMAIN active_rooms

\* C17: a release made by the voice listener cancels the room's timer on
\* every path through _perform_cleanup: once such a release has taken the
\* room, its timer is cancelled, neither still sleeping nor run to the end
\* of its sleep (where it would call _perform_cleanup for that id).
C17_VacancyCancelsTimer ==
    \A c \in Reqs : (cl[c].via = "vacant") => (timer[c].state = "cancelled")

\* C18: a voice-state update releases a room exactly when its before.channel
\* is a tracked room, the member is no longer in that channel, and no human
\* is among the members still connected: with a human left the update
\* releases nothing, and bots that stay do not prevent the release.  (An
\* update releases a room when the listener's step is enabled; otherwise it
\* changes nothing.)
C18_ReleaseOnlyWhenNoHumanLeft ==
    \A c \in VoiceChannels, moved \in BOOLEAN, members \in SUBSET Members :
       (ENABLED VoiceStateUpdate(c, moved, members))
          <=> (c \in DOMAIN active_rooms /\ moved /\ "human" \notin members)

\* C18 witness: the listener has released one room while another room is
\* tracked.
C18_Witness ==
    /\ \E c \in Reqs : cl[c].via = "vacant"
    /\ DOMAIN active_rooms # {}

\* C19: the two registries agree: owner_to_channel maps o to c exactly when
\* active_rooms holds channel c with owner_id o.  So every reverse mapping
\* points to a tracked room of that owner, and every tracked room is the
\* one its owner's reverse mapping points to.
C19_RegistriesAgree ==
    /\ \A o \in DOMAIN owner_to_channel :
          /\ owner_to_channel[o] \in DOMAIN active_rooms
          /\ active_rooms[owner_to_channel[o]].owner_id = o
    /\ \A c \in DOMAIN active_rooms :
          /\ active_rooms[c].owner_id \in DOMAIN owner_to_channel
          /\ owner_to_channel[active_rooms[c].owner_id] = c

\* C20: once a bookroom has ended on its failure path (here with every
\* rollback delete it made succeeding), no room of that request is in
\* active_rooms, no reverse mapping points to its channel, its timer is not
\* armed, and no _perform_cleanup has taken a room of it (so no sessions row
\* was written for it).
C20_FailedAdmissionLeavesNothing ==
    \A r \in Reqs :
       (/\ req[r].pc = "failed"
        /\ req[r].rb_role # "failed" /\ req[r].rb_channel # "failed")
          => (/\ r \notin DOMAIN active_rooms
              /\ \A o \in DOMAIN owner_to_channel : owner_to_channel[o] # r
              /\ timer[r].state # "sleeping"
              /\ cl[r].via = "none")

\* C21: every room in active_rooms has its one timer task pending (sleeping,
\* neither cancelled nor finished), before and after every step; the step
\* that stores a room is the step that creates its timer, where there was
\* none; and a timer is cancelled only in the step in which a
\* _perform_cleanup call for its own room has taken that room out of
\* active_rooms, a step that touches no other timer.
C21_ActiveRoomHasPendingTimer ==
    [][/\ \A c \in DOMAIN active_rooms : timer[c].state = "sleeping"
       /\ \A c \in DOMAIN active_rooms' : timer'[c].state = "sleeping"
       /\ \A c \in Reqs :
             /\ (c \notin DOMAIN active_rooms /\ c \in DOMAIN active_rooms')
                   => (timer[c].state = "none")
             /\ (timer[c].state # "cancelled" /\ timer'[c].state = "cancelled")
                   => (/\ timer[c].state = "sleeping"
                       /\ c \in DOMAIN active_rooms
                       /\ c \notin DOMAIN active_rooms'
                       /\ cl[c].via = "none" /\ cl'[c].via # "none"
                       /\ \A d \in Reqs \ {c} : timer'[d] = timer[d])
      ]_vars

\* C21 witness: a room is tracked with its timer sleeping while the timer of
\* another room has been cancelled by that room's release.
C21_Witness ==
    /\ \E c \in DOMAIN active_rooms : timer[c].state = "sleeping"
    /\ \E d \in Reqs :
          /\ timer[d].state = "cancelled"
          /\ d \notin DOMAIN active_rooms /\ cl[d].via = "vacant"
====
